---- MODULE Spec2Model ----
(***************************************************************************)
(* Cache abstraction of the Telegram bot: a keyed, TTL-bounded store that  *)
(* is reached through an asynchronous client, and the cache-aside handlers *)
(* of examples/cache_integration_examples.py that run on one cooperative   *)
(* event loop.  Every await of a handler is one step of a task; the steps  *)
(* of different tasks interleave freely.                                   *)
(***************************************************************************)
EXTENDS Integers, Sequences, FiniteSets, TLC

VARIABLES
    store,    \* the backing store: prefixed key -> entry
    up,       \* whether the backing store is reachable
    task,     \* one record per task of the event loop: position and locals
    db,       \* the database behind the handlers: counter and profile rows
    config    \* the attributes of RedisConfig, read from the environment

vars == <<store, up, task, db, config>>

(***************************************************************************)
(* Bounds of the model.                                                    *)
(***************************************************************************)
NumTasks == 2

Tasks == 1..NumTasks

(***************************************************************************)
(* TTLs of the call sites, in seconds.                                     *)
(***************************************************************************)
TTL_DEFAULT == 1800
TTL_ADMINS == 3600
TTL_HIGH == 300
TTL_NORMAL == 1800
TTL_LOW == 7200
TTL_OTHER == 1800
TTL_SESSION == 300
TTL_USER_DATA == 3600
TTL_PROFILE == 1800
TTL_CONDITIONAL == 1800
TTL_GROUPED == 1800
TTL_COUNTER == 7200

(***************************************************************************)
(* Strings are sequences of characters, so that prefixing and glob         *)
(* matching are computed and not assumed.                                  *)
(***************************************************************************)
CACHE_PREFIX == <<"b","o","t","_","c","a","c","h","e",":">>

K_admins == <<"a","d","m","i","n","s">>
K_user1 == <<"u","s","e","r",":","1">>
K_user1a == <<"u","s","e","r",":","1",":","a">>
K_user2a == <<"u","s","e","r",":","2",":","a">>
\* A key of another application that shares the store, outside the prefix.
K_foreign == <<"u","s","e","r",":","1",":","z">>

K_session1 == <<"u","s","e","r","_","s","e","s","s","i","o","n",":","1">>
K_data1 == <<"u","s","e","r","_","d","a","t","a",":","1">>
K_group == <<"g","r","o","u","p","e","d","_","u","s","e","r","s",":","g">>
K_counter ==
    <<"u","s","e","r","_","c","o","u","n","t","e","r",":","1",":","c">>

\* priority_data:<data_type>:<priority>, for the data type "s"
Pr_high == <<"h","i","g","h">>
Pr_normal == <<"n","o","r","m","a","l">>
Pr_low == <<"l","o","w">>
Pr_urgent == <<"u","r","g","e","n","t">>
Priorities == {Pr_high, Pr_normal, Pr_low, Pr_urgent}
PriorityKey(priority) ==
    <<"p","r","i","o","r","i","t","y","_","d","a","t","a",":","s",":">> \o priority

P_user == <<"u","s","e","r",":","*">>
P_user1 == <<"u","s","e","r",":","1",":","*">>
P_none == <<"c","h","a","t",":","*">>

Prefixed(k) == CACHE_PREFIX \o k

AppKeys ==
    {K_admins, K_user1, K_user1a, K_user2a, K_session1, K_data1, K_group,
     K_counter}
        \cup {PriorityKey(p) : p \in Priorities}
StoreKeys == {Prefixed(k) : k \in AppKeys} \cup {K_foreign}

(***************************************************************************)
(* Values.  None is Python's None, which is also what get returns for an   *)
(* absent key; Empty is a falsy value that is not None (an empty dict).    *)
(***************************************************************************)
None == "None"
Empty == "Empty"
Values == {None, Empty, "A", "B"}

Truthy(v) == v \notin {None, Empty}

Serialize(v) == <<"json", v>>
Deserialize(b) == b[2]

\* An entry: its serialized value, whether it has a TTL, the TTL, and the
\* time since it was written.
NoEntry == [present |-> FALSE, val |-> <<>>, expires |-> FALSE, ttl |-> 0, age |-> 0]
Entry(v, expires, ttl) ==
    [present |-> TRUE, val |-> Serialize(v), expires |-> expires, ttl |-> ttl,
     age |-> 0]

RECURSIVE GlobMatch(_, _)
GlobMatch(p, s) ==
    IF p = <<>> THEN s = <<>>
    ELSE IF Head(p) = "*"
         THEN GlobMatch(Tail(p), s) \/ (s # <<>> /\ GlobMatch(p, Tail(s)))
         ELSE s # <<>> /\ Head(s) = Head(p) /\ GlobMatch(Tail(p), Tail(s))

(***************************************************************************)
(* Cache client, on a reachable store.                                     *)
(***************************************************************************)
ClientGet(s, k) ==
    IF s[Prefixed(k)].present THEN Deserialize(s[Prefixed(k)].val) ELSE None

\* Mutant: set only if the key is not there (NX).
M_ClientSet_nx(s, k, v, ttl) ==
    IF s[Prefixed(k)].present THEN s
    ELSE [s EXCEPT ![Prefixed(k)] = Entry(v, TRUE, ttl)]

ClientSet(s, k, v, ttl) == [s EXCEPT ![Prefixed(k)] = Entry(v, TRUE, ttl)]

ClientSetNoTTL(s, k, v) == [s EXCEPT ![Prefixed(k)] = Entry(v, FALSE, 0)]

\* Mutant: the pattern is matched without the global prefix.
M_DeletePattern_unprefixed(s, pat) ==
    [sk \in DOMAIN s |-> IF GlobMatch(pat, sk) THEN NoEntry ELSE s[sk]]

DeletePattern(s, pat) ==
    [sk \in DOMAIN s |->
        IF GlobMatch(Prefixed(pat), sk) THEN NoEntry ELSE s[sk]]

(***************************************************************************)
(* The store ages its entries: one with a TTL is removed once the TTL has  *)
(* elapsed, one without a TTL stays.                                       *)
(***************************************************************************)
\* What is left of an entry whose TTL has elapsed: it is absent; the record
\* keeps, as history, that it was written and has expired.
Expired(e) == [e EXCEPT !.present = FALSE, !.age = e.ttl]

\* Mutant: an entry lives one instant longer than its TTL.
M_Aged_late(e, d) ==
    IF ~e.present \/ ~e.expires THEN e
    ELSE IF e.age + d > e.ttl THEN Expired(e)
    ELSE [e EXCEPT !.age = e.age + d]

Aged(e, d) ==
    IF ~e.present \/ ~e.expires THEN e
    ELSE IF e.age + d >= e.ttl THEN Expired(e)
    ELSE [e EXCEPT !.age = e.age + d]

(***************************************************************************)
(* Tasks.  A task is idle, or runs one call of one handler; pc is the      *)
(* await it is suspended at.  calls counts the invocations of the wrapped  *)
(* function in this call, sets the completed writes, dels the calls of     *)
(* delete_pattern and removed the count it returned; storeErr and prodErr  *)
(* record that a cache step, or the wrapped function, has raised.          *)
(***************************************************************************)
StoreUnavailable == "StoreUnavailable"
ComputationFailure == "ComputationFailure"
NameError == "NameError"
Raise == "Raise"

Idle ==
    [fn |-> "none", pc |-> "idle", key |-> <<>>, ttl |-> 0, pat |-> <<>>,
     arg |-> None,
     data |-> None, calls |-> 0, sets |-> 0, dels |-> 0, removed |-> 0,
     storeErr |-> FALSE,
     prodErr |-> FALSE, outcome |-> "none", result |-> None]

At(t, f, p) == task[t].fn = f /\ task[t].pc = p

Begin(t, f, p, k, ttl) ==
    /\ task[t].pc = "idle"
    /\ task' = [task EXCEPT ![t] =
                    [Idle EXCEPT !.fn = f, !.pc = p, !.key = k, !.ttl = ttl]]
    /\ UNCHANGED <<store, up, db, config>>

Returned(r, v) == [r EXCEPT !.pc = "done", !.outcome = "ok", !.result = v]
Raised(r, e) == [r EXCEPT !.pc = "done", !.outcome = "raise", !.result = e]

\* The caller has taken the outcome; the task may run another call.
Return(t) ==
    /\ task[t].pc = "done"
    /\ task' = [task EXCEPT ![t] = Idle]
    /\ UNCHANGED <<store, up, db, config>>

\* One invocation of a wrapped producer: it returns r, or raises.
Produced(r, v, next) ==
    IF v = Raise
    THEN [r EXCEPT !.calls = r.calls + 1, !.prodErr = TRUE]
    ELSE [r EXCEPT !.calls = r.calls + 1, !.data = v, !.pc = next]

\* A completed set(key, data, ttl) of task t.
Write(t) == store' = ClientSet(store, task[t].key, task[t].data, task[t].ttl)

(***************************************************************************)
(* safe_cache_get(key, fallback_func, ttl)                                 *)
(***************************************************************************)
Call_safe_cache_get(t, k, ttl) == Begin(t, "safe_cache_get", "get_cache", k, ttl)

safe_cache_get_get_cache(t) ==
    /\ At(t, "safe_cache_get", "get_cache")
    /\ task' = [task EXCEPT ![t] =
                    IF up THEN [@ EXCEPT !.pc = "get"]
                    ELSE [@ EXCEPT !.pc = "except", !.storeErr = TRUE]]
    /\ UNCHANGED <<store, up, db, config>>

safe_cache_get_get(t) ==
    /\ At(t, "safe_cache_get", "get")
    /\ task' = [task EXCEPT ![t] =
                    IF ~up THEN [@ EXCEPT !.pc = "except", !.storeErr = TRUE]
                    ELSE IF ClientGet(store, @.key) # None
                         THEN Returned(@, ClientGet(store, @.key))
                         ELSE [@ EXCEPT !.pc = "produce"]]
    /\ UNCHANGED <<store, up, db, config>>

safe_cache_get_fallback(t, v) ==
    /\ At(t, "safe_cache_get", "produce")
    /\ task' = [task EXCEPT ![t] =
                    IF v = Raise
                    THEN [Produced(@, v, "set") EXCEPT !.pc = "except"]
                    ELSE Produced(@, v, "set")]
    /\ UNCHANGED <<store, up, db, config>>

\* Mutant: the result is returned and never written.
M_safe_cache_get_set_unwritten(t) ==
    /\ At(t, "safe_cache_get", "set")
    /\ task' = [task EXCEPT ![t] =
                    IF up THEN Returned([@ EXCEPT !.sets = @ + 1], @.data)
                    ELSE [@ EXCEPT !.pc = "except", !.storeErr = TRUE]]
    /\ UNCHANGED <<store, up, db, config>>

\* Mutant: the set is outside the try block.
M_safe_cache_get_set_unguarded(t) ==
    /\ At(t, "safe_cache_get", "set")
    /\ IF up
       THEN /\ Write(t)
            /\ task' = [task EXCEPT ![t] =
                            Returned([@ EXCEPT !.sets = @ + 1], @.data)]
       ELSE /\ task' = [task EXCEPT ![t] =
                            Raised([@ EXCEPT !.storeErr = TRUE], StoreUnavailable)]
            /\ UNCHANGED store
    /\ UNCHANGED <<up, db, config>>

\* Mutant: an entry that is already there is not overwritten.
M_safe_cache_get_set_if_absent(t) ==
    /\ At(t, "safe_cache_get", "set")
    /\ IF up
       THEN /\ IF store[Prefixed(task[t].key)].present
               THEN UNCHANGED store ELSE Write(t)
            /\ task' = [task EXCEPT ![t] =
                            Returned([@ EXCEPT !.sets = @ + 1], @.data)]
       ELSE /\ task' = [task EXCEPT ![t] =
                            [@ EXCEPT !.pc = "except", !.storeErr = TRUE]]
            /\ UNCHANGED store
    /\ UNCHANGED <<up, db, config>>

safe_cache_get_set(t) ==
    /\ At(t, "safe_cache_get", "set")
    /\ IF up
       THEN /\ Write(t)
            /\ task' = [task EXCEPT ![t] =
                            Returned([@ EXCEPT !.sets = @ + 1], @.data)]
       ELSE /\ task' = [task EXCEPT ![t] =
                            [@ EXCEPT !.pc = "except", !.storeErr = TRUE]]
            /\ UNCHANGED store
    /\ UNCHANGED <<up, db, config>>

\* except Exception: return await fallback_func()
safe_cache_get_except(t, v) ==
    /\ At(t, "safe_cache_get", "except")
    /\ task' = [task EXCEPT ![t] =
                    IF v = Raise
                    THEN Raised(Produced(@, v, "done"), ComputationFailure)
                    ELSE Returned(Produced(@, v, "done"), v)]
    /\ UNCHANGED <<store, up, db, config>>

(***************************************************************************)
(* cache_result(key_prefix, ttl), the memoization decorator, around        *)
(* get_admin_users: get; on a hit return the value; on a miss invoke f,    *)
(* set, return.  A store failure is caught and handled as a miss; a        *)
(* failure of f propagates.                                                *)
(***************************************************************************)
Call_get_admin_users(t) == Begin(t, "cache_result", "get", K_admins, TTL_ADMINS)

cache_result_get(t) ==
    /\ At(t, "cache_result", "get")
    /\ task' = [task EXCEPT ![t] =
                    IF ~up THEN [@ EXCEPT !.pc = "produce", !.storeErr = TRUE]
                    ELSE IF store[Prefixed(@.key)].present
                         THEN Returned(@, ClientGet(store, @.key))
                         ELSE [@ EXCEPT !.pc = "produce"]]
    /\ UNCHANGED <<store, up, db, config>>

\* The body of get_admin_users: the database read, then the list.
get_admin_users(t, v) ==
    /\ At(t, "cache_result", "produce")
    /\ task' = [task EXCEPT ![t] =
                    IF v = Raise
                    THEN Raised(Produced(@, v, "set"), ComputationFailure)
                    ELSE Produced(@, v, "set")]
    /\ UNCHANGED <<store, up, db, config>>

cache_result_set(t) ==
    /\ At(t, "cache_result", "set")
    /\ IF up
       THEN /\ Write(t)
            /\ task' = [task EXCEPT ![t] =
                            Returned([@ EXCEPT !.sets = @ + 1], @.data)]
       ELSE /\ task' = [task EXCEPT ![t] =
                            Returned([@ EXCEPT !.storeErr = TRUE], @.data)]
            /\ UNCHANGED store
    /\ UNCHANGED <<up, db, config>>

\* get_user_profile, decorated with cache_user_data(ttl=1800): the
\* discriminator is the identifier of the sender.
Call_get_user_profile(t) == Begin(t, "cache_result", "get", K_user1, TTL_PROFILE)

\* The body of get_user_profile: the profile as the database has it.
get_user_profile(t, v) ==
    /\ At(t, "cache_result", "produce")
    /\ task[t].key = K_user1
    /\ task' = [task EXCEPT ![t] =
                    IF v = Raise
                    THEN Raised(Produced(@, v, "set"), ComputationFailure)
                    ELSE Produced(@, v, "set")]
    /\ UNCHANGED <<store, up, db, config>>

(***************************************************************************)
(* get_auto_refresh_data(key, fetch_func, ttl).  No cache step is guarded: *)
(* a store failure leaves the call as StoreUnavailable.  On a hit (a       *)
(* truthy cached value) line 291 evaluates the name asyncio, which the     *)
(* module never imports: the call raises NameError before any task is      *)
(* created.                                                                *)
(***************************************************************************)
Call_get_auto_refresh_data(t, k, ttl) ==
    Begin(t, "get_auto_refresh_data", "get_cache", k, ttl)

get_auto_refresh_data_get_cache(t) ==
    /\ At(t, "get_auto_refresh_data", "get_cache")
    /\ task' = [task EXCEPT ![t] =
                    IF up THEN [@ EXCEPT !.pc = "get"]
                    ELSE Raised([@ EXCEPT !.storeErr = TRUE], StoreUnavailable)]
    /\ UNCHANGED <<store, up, db, config>>

get_auto_refresh_data_get(t) ==
    /\ At(t, "get_auto_refresh_data", "get")
    /\ task' = [task EXCEPT ![t] =
                    IF ~up
                    THEN Raised([@ EXCEPT !.storeErr = TRUE], StoreUnavailable)
                    ELSE IF Truthy(ClientGet(store, @.key))
                         THEN Raised(@, NameError)
                         ELSE [@ EXCEPT !.pc = "produce"]]
    /\ UNCHANGED <<store, up, db, config>>

get_auto_refresh_data_fetch(t, v) ==
    /\ At(t, "get_auto_refresh_data", "produce")
    /\ task' = [task EXCEPT ![t] =
                    IF v = Raise
                    THEN Raised(Produced(@, v, "set"), ComputationFailure)
                    ELSE Produced(@, v, "set")]
    /\ UNCHANGED <<store, up, db, config>>

get_auto_refresh_data_set(t) ==
    /\ At(t, "get_auto_refresh_data", "set")
    /\ IF up
       THEN /\ Write(t)
            /\ task' = [task EXCEPT ![t] =
                            Returned([@ EXCEPT !.sets = @ + 1], @.data)]
       ELSE /\ task' = [task EXCEPT ![t] =
                            Raised([@ EXCEPT !.storeErr = TRUE], StoreUnavailable)]
            /\ UNCHANGED store
    /\ UNCHANGED <<up, db, config>>

(***************************************************************************)
(* refresh_cache_background(key, fetch_func, ttl), run as a task of its    *)
(* own.  Its whole body is inside try / except Exception: a failure is     *)
(* printed and the coroutine returns None.                                 *)
(***************************************************************************)
Call_refresh_cache_background(t, k, ttl) ==
    Begin(t, "refresh_cache_background", "get_cache", k, ttl)

refresh_cache_background_get_cache(t) ==
    /\ At(t, "refresh_cache_background", "get_cache")
    /\ task' = [task EXCEPT ![t] =
                    IF up THEN [@ EXCEPT !.pc = "produce"]
                    ELSE Returned([@ EXCEPT !.storeErr = TRUE], None)]
    /\ UNCHANGED <<store, up, db, config>>

\* Mutant: a failure of fetch_func leaves the refresher as an exception.
M_refresh_cache_background_fetch_propagates(t, v) ==
    /\ At(t, "refresh_cache_background", "produce")
    /\ task' = [task EXCEPT ![t] =
                    IF v = Raise
                    THEN Raised(Produced(@, v, "set"), ComputationFailure)
                    ELSE Produced(@, v, "set")]
    /\ UNCHANGED <<store, up, db, config>>

refresh_cache_background_fetch(t, v) ==
    /\ At(t, "refresh_cache_background", "produce")
    /\ task' = [task EXCEPT ![t] =
                    IF v = Raise
                    THEN Returned(Produced(@, v, "set"), None)
                    ELSE Produced(@, v, "set")]
    /\ UNCHANGED <<store, up, db, config>>

\* Mutant: the old entry is deleted before the new one is written.
M_refresh_cache_background_set_delete_first(t) ==
    /\ At(t, "refresh_cache_background", "set")
    /\ IF up
       THEN /\ Write(t)
            /\ task' = [task EXCEPT ![t] =
                            Returned([@ EXCEPT !.sets = @ + 1], None)]
       ELSE /\ task' = [task EXCEPT ![t] =
                            Returned([@ EXCEPT !.storeErr = TRUE], None)]
            /\ store' = [store EXCEPT ![Prefixed(task[t].key)] = NoEntry]
    /\ UNCHANGED <<up, db, config>>

refresh_cache_background_set(t) ==
    /\ At(t, "refresh_cache_background", "set")
    /\ IF up
       THEN /\ Write(t)
            /\ task' = [task EXCEPT ![t] =
                            Returned([@ EXCEPT !.sets = @ + 1], None)]
       ELSE /\ task' = [task EXCEPT ![t] =
                            Returned([@ EXCEPT !.storeErr = TRUE], None)]
            /\ UNCHANGED store
    /\ UNCHANGED <<up, db, config>>

(***************************************************************************)
(* cache_invalidate(pattern), the invalidation decorator, around           *)
(* update_user_profile: invoke f; only if it returns, delete_pattern;      *)
(* return f's result.  A store failure of delete_pattern is caught.        *)
(***************************************************************************)
Call_invalidating(t, pat) ==
    /\ task[t].pc = "idle"
    /\ task' = [task EXCEPT ![t] =
                    [Idle EXCEPT !.fn = "update_user_profile", !.pc = "body",
                                 !.pat = pat]]
    /\ UNCHANGED <<store, up, db, config>>

Call_update_user_profile(t) == Call_invalidating(t, P_user)

\* The body of update_user_profile: the database update, then the result.
\* v is the profile the update writes, and stands for the result as well.
update_user_profile(t, v) ==
    /\ At(t, "update_user_profile", "body")
    /\ task' = [task EXCEPT ![t] =
                    IF v = Raise
                    THEN Raised(Produced(@, v, "delete_pattern"), ComputationFailure)
                    ELSE Produced(@, v, "delete_pattern")]
    /\ db' = IF v = Raise THEN db ELSE [db EXCEPT !.profile = v]
    /\ UNCHANGED <<store, up, config>>

Matched(s, pat) == {sk \in DOMAIN s : s[sk].present /\ GlobMatch(Prefixed(pat), sk)}

\* Mutant: the decorator does not return the result of f.
M_cache_invalidate_delete_pattern_drops_result(t) ==
    /\ At(t, "update_user_profile", "delete_pattern")
    /\ IF up
       THEN /\ store' = DeletePattern(store, task[t].pat)
            /\ task' = [task EXCEPT ![t] =
                            Returned([@ EXCEPT !.dels = @ + 1,
                                               !.removed = Cardinality(Matched(store, task[t].pat))],
                                     None)]
       ELSE /\ task' = [task EXCEPT ![t] =
                            Returned([@ EXCEPT !.dels = @ + 1, !.storeErr = TRUE], None)]
            /\ UNCHANGED store
    /\ UNCHANGED <<up, db, config>>

cache_invalidate_delete_pattern(t) ==
    /\ At(t, "update_user_profile", "delete_pattern")
    /\ IF up
       THEN /\ store' = DeletePattern(store, task[t].pat)
            /\ task' = [task EXCEPT ![t] =
                            Returned([@ EXCEPT !.dels = @ + 1,
                                               !.removed = Cardinality(Matched(store, task[t].pat))],
                                     @.data)]
       ELSE /\ task' = [task EXCEPT ![t] =
                            Returned([@ EXCEPT !.dels = @ + 1, !.storeErr = TRUE], @.data)]
            /\ UNCHANGED store
    /\ UNCHANGED <<up, db, config>>

(***************************************************************************)
(* get_priority_data(data_type, priority): the TTL depends on the          *)
(* priority; no cache step is guarded.                                     *)
(***************************************************************************)
ttl_map(priority) ==
    IF priority = Pr_high THEN TTL_HIGH
    ELSE IF priority = Pr_normal THEN TTL_NORMAL
    ELSE IF priority = Pr_low THEN TTL_LOW
    ELSE TTL_OTHER

Call_get_priority_data(t, priority) ==
    /\ task[t].pc = "idle"
    /\ task' = [task EXCEPT ![t] =
                    [Idle EXCEPT !.fn = "get_priority_data", !.pc = "get_cache",
                                 !.arg = priority,
                                 !.ttl = ttl_map(priority),
                                 !.key = PriorityKey(priority)]]
    /\ UNCHANGED <<store, up, db, config>>

get_priority_data_get_cache(t) ==
    /\ At(t, "get_priority_data", "get_cache")
    /\ task' = [task EXCEPT ![t] =
                    IF up THEN [@ EXCEPT !.pc = "get"]
                    ELSE Raised([@ EXCEPT !.storeErr = TRUE], StoreUnavailable)]
    /\ UNCHANGED <<store, up, db, config>>

get_priority_data_get(t) ==
    /\ At(t, "get_priority_data", "get")
    /\ task' = [task EXCEPT ![t] =
                    IF ~up
                    THEN Raised([@ EXCEPT !.storeErr = TRUE], StoreUnavailable)
                    ELSE IF Truthy(ClientGet(store, @.key))
                         THEN Returned(@, ClientGet(store, @.key))
                         ELSE [@ EXCEPT !.pc = "produce"]]
    /\ UNCHANGED <<store, up, db, config>>

get_priority_data_fetch(t, v) ==
    /\ At(t, "get_priority_data", "produce")
    /\ task' = [task EXCEPT ![t] =
                    IF v = Raise
                    THEN Raised(Produced(@, v, "set"), ComputationFailure)
                    ELSE Produced(@, v, "set")]
    /\ UNCHANGED <<store, up, db, config>>

get_priority_data_set(t) ==
    /\ At(t, "get_priority_data", "set")
    /\ IF up
       THEN /\ Write(t)
            /\ task' = [task EXCEPT ![t] =
                            Returned([@ EXCEPT !.sets = @ + 1], @.data)]
       ELSE /\ task' = [task EXCEPT ![t] =
                            Raised([@ EXCEPT !.storeErr = TRUE], StoreUnavailable)]
            /\ UNCHANGED store
    /\ UNCHANGED <<up, db, config>>

(***************************************************************************)
(* get_user_data_with_conditional_cache(message), for user 1: the fetched  *)
(* user data is cached only when its "is_active" is truthy.  The user data *)
(* is a dict: "Active" has a truthy is_active, "Inactive" a falsy one, and *)
(* Empty is the dict without the key.                                      *)
(***************************************************************************)
UserData == {"Active", "Inactive", Empty}

is_active(user_data) == user_data = "Active"

Call_get_user_data_with_conditional_cache(t) ==
    Begin(t, "get_user_data_with_conditional_cache", "get_cache", K_data1,
          TTL_CONDITIONAL)

get_user_data_with_conditional_cache_get_cache(t) ==
    /\ At(t, "get_user_data_with_conditional_cache", "get_cache")
    /\ task' = [task EXCEPT ![t] =
                    IF up THEN [@ EXCEPT !.pc = "get"]
                    ELSE Raised([@ EXCEPT !.storeErr = TRUE], StoreUnavailable)]
    /\ UNCHANGED <<store, up, db, config>>

get_user_data_with_conditional_cache_get(t) ==
    /\ At(t, "get_user_data_with_conditional_cache", "get")
    /\ task' = [task EXCEPT ![t] =
                    IF ~up
                    THEN Raised([@ EXCEPT !.storeErr = TRUE], StoreUnavailable)
                    ELSE IF Truthy(ClientGet(store, @.key))
                         THEN Returned(@, ClientGet(store, @.key))
                         ELSE [@ EXCEPT !.pc = "produce"]]
    /\ UNCHANGED <<store, up, db, config>>

\* Mutant: the user data is cached whatever its is_active.
M_get_user_data_with_conditional_cache_fetch_always(t, v) ==
    /\ At(t, "get_user_data_with_conditional_cache", "produce")
    /\ task' = [task EXCEPT ![t] =
                    IF v = Raise
                    THEN Raised(Produced(@, v, "set"), ComputationFailure)
                    ELSE Produced(@, v, "set")]
    /\ UNCHANGED <<store, up, db, config>>

\* fetch_user_data_from_db, then the test of is_active: an inactive user's
\* data is returned without another await.
get_user_data_with_conditional_cache_fetch(t, v) ==
    /\ At(t, "get_user_data_with_conditional_cache", "produce")
    /\ task' = [task EXCEPT ![t] =
                    IF v = Raise
                    THEN Raised(Produced(@, v, "set"), ComputationFailure)
                    ELSE IF is_active(v)
                         THEN Produced(@, v, "set")
                         ELSE Returned(Produced(@, v, "set"), v)]
    /\ UNCHANGED <<store, up, db, config>>

get_user_data_with_conditional_cache_set(t) ==
    /\ At(t, "get_user_data_with_conditional_cache", "set")
    /\ IF up
       THEN /\ Write(t)
            /\ task' = [task EXCEPT ![t] =
                            Returned([@ EXCEPT !.sets = @ + 1], @.data)]
       ELSE /\ task' = [task EXCEPT ![t] =
                            Raised([@ EXCEPT !.storeErr = TRUE], StoreUnavailable)]
            /\ UNCHANGED store
    /\ UNCHANGED <<up, db, config>>

(***************************************************************************)
(* get_grouped_user_data(group_id), for one group: the users of the group  *)
(* are grouped by status and the grouping is cached.  users_data is the    *)
(* list of the users' statuses; a group without users groups to the empty  *)
(* dict.                                                                   *)
(***************************************************************************)
UsersData == {<<>>, <<"active">>, <<"active", "banned">>}

grouped_data(users_data) == IF users_data = <<>> THEN Empty ELSE "A"

Call_get_grouped_user_data(t) ==
    Begin(t, "get_grouped_user_data", "get_cache", K_group, TTL_GROUPED)

get_grouped_user_data_get_cache(t) ==
    /\ At(t, "get_grouped_user_data", "get_cache")
    /\ task' = [task EXCEPT ![t] =
                    IF up THEN [@ EXCEPT !.pc = "get"]
                    ELSE Raised([@ EXCEPT !.storeErr = TRUE], StoreUnavailable)]
    /\ UNCHANGED <<store, up, db, config>>

get_grouped_user_data_get(t) ==
    /\ At(t, "get_grouped_user_data", "get")
    /\ task' = [task EXCEPT ![t] =
                    IF ~up
                    THEN Raised([@ EXCEPT !.storeErr = TRUE], StoreUnavailable)
                    ELSE IF Truthy(ClientGet(store, @.key))
                         THEN Returned(@, ClientGet(store, @.key))
                         ELSE [@ EXCEPT !.pc = "produce"]]
    /\ UNCHANGED <<store, up, db, config>>

\* fetch_users_by_group, then the grouping; raises is TRUE when the fetch
\* raises.
get_grouped_user_data_fetch(t, users_data, raises) ==
    /\ At(t, "get_grouped_user_data", "produce")
    /\ task' = [task EXCEPT ![t] =
                    IF raises
                    THEN Raised(Produced(@, Raise, "set"), ComputationFailure)
                    ELSE Produced(@, grouped_data(users_data), "set")]
    /\ UNCHANGED <<store, up, db, config>>

get_grouped_user_data_set(t) ==
    /\ At(t, "get_grouped_user_data", "set")
    /\ IF up
       THEN /\ Write(t)
            /\ task' = [task EXCEPT ![t] =
                            Returned([@ EXCEPT !.sets = @ + 1], @.data)]
       ELSE /\ task' = [task EXCEPT ![t] =
                            Raised([@ EXCEPT !.storeErr = TRUE], StoreUnavailable)]
            /\ UNCHANGED store
    /\ UNCHANGED <<up, db, config>>

(***************************************************************************)
(* increment_user_counter(user_id, counter_type), for one counter of user  *)
(* 1.  A cached integer is its decimal numeral; the database holds the     *)
(* integer.  get_counter_from_db and update_counter_in_db are the          *)
(* application's database functions.                                       *)
(***************************************************************************)
Num(n) == ToString(n)
Val(v) == CHOOSE n \in 0..(NumTasks + 1) : Num(n) = v

Call_increment_user_counter(t) ==
    Begin(t, "increment_user_counter", "get_cache", K_counter, TTL_COUNTER)

increment_user_counter_get_cache(t) ==
    /\ At(t, "increment_user_counter", "get_cache")
    /\ task' = [task EXCEPT ![t] =
                    IF up THEN [@ EXCEPT !.pc = "get"]
                    ELSE Raised([@ EXCEPT !.storeErr = TRUE], StoreUnavailable)]
    /\ UNCHANGED <<store, up, db, config>>

\* current_value = await cache.get(cache_key), and the test for None.
increment_user_counter_get(t) ==
    /\ At(t, "increment_user_counter", "get")
    /\ task' = [task EXCEPT ![t] =
                    IF ~up
                    THEN Raised([@ EXCEPT !.storeErr = TRUE], StoreUnavailable)
                    ELSE IF ClientGet(store, @.key) = None
                         THEN [@ EXCEPT !.pc = "get_counter_from_db"]
                         ELSE [@ EXCEPT !.data = ClientGet(store, task[t].key),
                                        !.pc = "set"]]
    /\ UNCHANGED <<store, up, db, config>>

increment_user_counter_get_counter_from_db(t) ==
    /\ At(t, "increment_user_counter", "get_counter_from_db")
    /\ task' = [task EXCEPT ![t] = [@ EXCEPT !.data = Num(db.counter), !.pc = "set"]]
    /\ UNCHANGED <<store, up, db, config>>

\* new_value = current_value + 1, then the set of the cache entry.
increment_user_counter_set(t) ==
    /\ At(t, "increment_user_counter", "set")
    /\ IF up
       THEN /\ store' = ClientSet(store, task[t].key, Num(Val(task[t].data) + 1),
                                  task[t].ttl)
            /\ task' = [task EXCEPT ![t] =
                            [@ EXCEPT !.sets = @ + 1,
                                      !.data = Num(Val(task[t].data) + 1),
                                      !.pc = "update_counter_in_db"]]
       ELSE /\ task' = [task EXCEPT ![t] =
                            Raised([@ EXCEPT !.storeErr = TRUE], StoreUnavailable)]
            /\ UNCHANGED store
    /\ UNCHANGED <<up, db, config>>

increment_user_counter_update_counter_in_db(t) ==
    /\ At(t, "increment_user_counter", "update_counter_in_db")
    /\ db' = [db EXCEPT !.counter = Val(task[t].data)]
    /\ task' = [task EXCEPT ![t] = Returned(@, @.data)]
    /\ UNCHANGED <<store, up, config>>

(***************************************************************************)
(* cache_user_session_data(user_id, session_data), for user 1: the session *)
(* data under user_session:1 for 5 minutes, then its "user_info" (None     *)
(* when it has none) under user_data:1 for an hour.                        *)
(***************************************************************************)
Sessions == {"S1", "S2"}
UserInfo(session_data) == IF session_data = "S1" THEN "U1" ELSE None

Call_cache_user_session_data(t, session_data) ==
    /\ task[t].pc = "idle"
    /\ task' = [task EXCEPT ![t] =
                    [Idle EXCEPT !.fn = "cache_user_session_data",
                                 !.pc = "get_cache", !.arg = session_data]]
    /\ UNCHANGED <<store, up, db, config>>

cache_user_session_data_get_cache(t) ==
    /\ At(t, "cache_user_session_data", "get_cache")
    /\ task' = [task EXCEPT ![t] =
                    IF up
                    THEN [@ EXCEPT !.pc = "set", !.key = K_session1,
                                   !.data = task[t].arg, !.ttl = TTL_SESSION]
                    ELSE Raised([@ EXCEPT !.storeErr = TRUE], StoreUnavailable)]
    /\ UNCHANGED <<store, up, db, config>>

cache_user_session_data_set_session(t) ==
    /\ At(t, "cache_user_session_data", "set")
    /\ IF up
       THEN /\ Write(t)
            /\ task' = [task EXCEPT ![t] =
                            [@ EXCEPT !.sets = @ + 1, !.pc = "set_user",
                                      !.key = K_data1,
                                      !.data = UserInfo(task[t].arg),
                                      !.ttl = TTL_USER_DATA]]
       ELSE /\ task' = [task EXCEPT ![t] =
                            Raised([@ EXCEPT !.storeErr = TRUE], StoreUnavailable)]
            /\ UNCHANGED store
    /\ UNCHANGED <<up, db, config>>

cache_user_session_data_set_user(t) ==
    /\ At(t, "cache_user_session_data", "set_user")
    /\ IF up
       THEN /\ Write(t)
            /\ task' = [task EXCEPT ![t] =
                            Returned([@ EXCEPT !.sets = @ + 1], "True")]
       ELSE /\ task' = [task EXCEPT ![t] =
                            Raised([@ EXCEPT !.storeErr = TRUE], StoreUnavailable)]
            /\ UNCHANGED store
    /\ UNCHANGED <<up, db, config>>

\* A direct set(key, value) of the client, with no TTL.
set_without_ttl(k, v) ==
    /\ up
    /\ store' = ClientSetNoTTL(store, k, v)
    /\ UNCHANGED <<up, task, db, config>>

(***************************************************************************)
(* RedisConfig (config/settings.py).  The attributes are read from the     *)
(* environment when the class is created; strings are sequences of         *)
(* characters, the port and the logical database index are integers.       *)
(***************************************************************************)
S_redis == <<"r","e","d","i","s",":","/","/">>
S_localhost == <<"l","o","c","a","l","h","o","s","t">>

DefaultConfig ==
    [REDIS_HOST |-> S_localhost, REDIS_PORT |-> 6379, REDIS_DB |-> 0,
     REDIS_PASSWORD |-> <<>>, REDIS_URL |-> <<>>]

\* str(n) for an integer n: decimal digits, most significant first.
Digit(d) == <<"0","1","2","3","4","5","6","7","8","9">>[d + 1]

RECURSIVE Decimal(_)
Decimal(n) == IF n < 10 THEN <<Digit(n)>> ELSE Decimal(n \div 10) \o <<Digit(n % 10)>>

Str(n) == IF n < 0 THEN <<"-">> \o Decimal(-n) ELSE Decimal(n)

\* Mutant: the password form is tried before REDIS_URL.
M_get_redis_url_password_first(cls) ==
    IF cls.REDIS_PASSWORD # <<>>
    THEN S_redis \o <<":">> \o cls.REDIS_PASSWORD \o <<"@">> \o cls.REDIS_HOST
             \o <<":">> \o Str(cls.REDIS_PORT) \o <<"/">> \o Str(cls.REDIS_DB)
    ELSE IF cls.REDIS_URL # <<>>
    THEN cls.REDIS_URL
    ELSE S_redis \o cls.REDIS_HOST
             \o <<":">> \o Str(cls.REDIS_PORT) \o <<"/">> \o Str(cls.REDIS_DB)

get_redis_url(cls) ==
    IF cls.REDIS_URL # <<>>
    THEN cls.REDIS_URL
    ELSE IF cls.REDIS_PASSWORD # <<>>
    THEN S_redis \o <<":">> \o cls.REDIS_PASSWORD \o <<"@">> \o cls.REDIS_HOST
             \o <<":">> \o Str(cls.REDIS_PORT) \o <<"/">> \o Str(cls.REDIS_DB)
    ELSE S_redis \o cls.REDIS_HOST
             \o <<":">> \o Str(cls.REDIS_PORT) \o <<"/">> \o Str(cls.REDIS_DB)

\* A caller evaluates RedisConfig.get_redis_url(): no await, one step.
Call_get_redis_url(t) ==
    /\ task[t].pc = "idle"
    /\ task' = [task EXCEPT ![t] =
                    Returned([Idle EXCEPT !.fn = "get_redis_url"],
                             get_redis_url(config))]
    /\ UNCHANGED <<store, up, db, config>>


(***************************************************************************)
(* The environment: the store becomes unreachable and reachable again,     *)
(* and time passes.                                                        *)
(***************************************************************************)
Outage ==
    /\ up
    /\ up' = FALSE
    /\ UNCHANGED <<store, task, db, config>>

Recover ==
    /\ ~up
    /\ up' = TRUE
    /\ UNCHANGED <<store, task, db, config>>

Advance(d) ==
    /\ \E sk \in StoreKeys : store[sk].present /\ store[sk].expires
    /\ store' = [sk \in StoreKeys |-> Aged(store[sk], d)]
    /\ UNCHANGED <<up, task, db, config>>

EmptyStore == [sk \in StoreKeys |-> IF sk = K_foreign THEN Entry("A", FALSE, 0) ELSE NoEntry]

InitialDb == [counter |-> 0, profile |-> "A"]

Init ==
    /\ store = EmptyStore
    /\ up = TRUE
    /\ task = [t \in Tasks |-> Idle]
    /\ db = InitialDb
    /\ config = DefaultConfig

(***************************************************************************)
(* SpecMemo: memoized calls (safe_cache_get and the decorated              *)
(* get_admin_users) under outages and expiry.                              *)
(***************************************************************************)
MemoOutcomes == {None, "A", Raise}

NextMemo ==
    \/ \E t \in Tasks : Call_safe_cache_get(t, K_user1a, TTL_DEFAULT)
    \/ \E t \in Tasks : safe_cache_get_get_cache(t)
    \/ \E t \in Tasks : safe_cache_get_get(t)
    \/ \E t \in Tasks, v \in MemoOutcomes : safe_cache_get_fallback(t, v)
    \/ \E t \in Tasks : safe_cache_get_set(t)
    \/ \E t \in Tasks, v \in MemoOutcomes : safe_cache_get_except(t, v)
    \/ \E t \in Tasks : Call_get_admin_users(t)
    \/ \E t \in Tasks : cache_result_get(t)
    \/ \E t \in Tasks, v \in MemoOutcomes : get_admin_users(t, v)
    \/ \E t \in Tasks : cache_result_set(t)
    \/ \E t \in Tasks : Return(t)
    \/ Outage
    \/ Recover
    \/ Advance(TTL_DEFAULT)

SpecMemo == Init /\ [][NextMemo]_vars

(***************************************************************************)
(* Properties of memoized calls.                                           *)
(***************************************************************************)
MemoFns == {"safe_cache_get", "cache_result"}

\* Task t executes its get against a reachable store in this step.
GetStep(t) == task[t].pc = "get" /\ task'[t].pc # "get" /\ up

\* Task t finishes in this step a call in which nothing has raised.
CleanFinish(t) ==
    /\ task[t].pc # "done" /\ task'[t].pc = "done"
    /\ ~task'[t].storeErr /\ ~task'[t].prodErr

HitReturns(t) ==
    /\ task'[t].pc = "done" /\ task'[t].outcome = "ok"
    /\ task'[t].result = Deserialize(store[Prefixed(task[t].key)].val)
    /\ task'[t].calls = 0 /\ task'[t].sets = 0
    /\ store' = store

MissComputes(t) ==
    /\ task'[t].calls = 1 /\ task'[t].sets = 1
    /\ task'[t].outcome = "ok" /\ task'[t].result = task[t].data
    /\ store'[Prefixed(task[t].key)] = Entry(task'[t].result, TRUE, task[t].ttl)

C2_FailureIsolation ==
    \A t \in Tasks :
        (task[t].fn \in MemoFns /\ task[t].pc = "done" /\ task[t].prodErr) =>
            /\ task[t].outcome = "raise"
            /\ task[t].result = ComputationFailure
            /\ task[t].sets = 0

\* C3: safe_cache_get never raises a store error, and when a cache step has
\* failed and the producer has not, it returns the value the producer
\* returned.
C3_Degradation ==
    \A t \in Tasks :
        (task[t].fn = "safe_cache_get" /\ task[t].pc = "done") =>
            /\ task[t].result # StoreUnavailable
            /\ (task[t].storeErr /\ ~task[t].prodErr) =>
                    /\ task[t].outcome = "ok"
                    /\ task[t].calls >= 1
                    /\ task[t].result = task[t].data

\* The set of a call failed on an unreachable store, after its get had
\* succeeded, and the call returned the producer's value.
C3_Witness ==
    \E t \in Tasks :
        /\ task[t].fn = "safe_cache_get" /\ task[t].pc = "done"
        /\ task[t].storeErr /\ ~task[t].prodErr
        /\ task[t].calls = 2 /\ task[t].outcome = "ok" /\ task[t].result = "A"

(***************************************************************************)
(* SpecRefresh: get_auto_refresh_data and the background refresher on one  *)
(* key, under outages and expiry.                                          *)
(***************************************************************************)
RefreshOutcomes == {Empty, "A", Raise}

NextRefresh ==
    \/ \E t \in Tasks : Call_get_auto_refresh_data(t, K_user1a, TTL_DEFAULT)
    \/ \E t \in Tasks : get_auto_refresh_data_get_cache(t)
    \/ \E t \in Tasks : get_auto_refresh_data_get(t)
    \/ \E t \in Tasks, v \in RefreshOutcomes : get_auto_refresh_data_fetch(t, v)
    \/ \E t \in Tasks : get_auto_refresh_data_set(t)
    \/ \E t \in Tasks : Call_refresh_cache_background(t, K_user1a, TTL_DEFAULT)
    \/ \E t \in Tasks : refresh_cache_background_get_cache(t)
    \/ \E t \in Tasks, v \in RefreshOutcomes : refresh_cache_background_fetch(t, v)
    \/ \E t \in Tasks : refresh_cache_background_set(t)
    \/ \E t \in Tasks : Return(t)
    \/ Outage
    \/ Recover
    \/ Advance(TTL_DEFAULT)

SpecRefresh == Init /\ [][NextRefresh]_vars

\* C6: when get_auto_refresh_data finds the key present (a truthy value),
\* the call returns the cached value: it does not invoke fetch_func, does
\* not wait for the refresher, and completes successfully.
C6_HitReturnsCached ==
    [][\A t \in Tasks :
        (/\ task[t].fn = "get_auto_refresh_data" /\ GetStep(t)
         /\ Truthy(ClientGet(store, task[t].key))) => HitReturns(t)]_vars

\* C7: a step of the refresher in which fetch_func or a cache operation
\* fails ends the task without raising and leaves the store as it was;
\* the refresher never raises, and changes the store only by its own
\* successful set.
C7_RefresherContained ==
    [][\A t \in Tasks : task[t].fn = "refresh_cache_background" =>
        /\ task'[t].outcome # "raise"
        /\ (/\ ~(task[t].storeErr \/ task[t].prodErr)
            /\ (task'[t].storeErr \/ task'[t].prodErr)) =>
                /\ store' = store
                /\ task'[t].pc = "done" /\ task'[t].outcome = "ok"
                /\ task'[t].sets = 0
        /\ (task'[t] # task[t] /\ store' # store) =>
                /\ task[t].pc = "set" /\ up
                /\ store' = ClientSet(store, task[t].key, task[t].data, task[t].ttl)]_vars

\* A refresher has swallowed a failure of its set on an unreachable store
\* and the stale entry of its key is still there.
C7_Witness ==
    \E t \in Tasks :
        /\ task[t].fn = "refresh_cache_background" /\ task[t].pc = "done"
        /\ task[t].storeErr /\ task[t].calls = 1 /\ task[t].outcome = "ok"
        /\ store[Prefixed(task[t].key)].present
        /\ ClientGet(store, task[t].key) # task[t].data

(***************************************************************************)
(* SpecRace: safe_cache_get and get_auto_refresh_data called concurrently  *)
(* for one key, the producer returning different values.                   *)
(***************************************************************************)
RaceOutcomes == {"A", "B", Raise}
RaceFns == {"safe_cache_get", "get_auto_refresh_data"}

NextRace ==
    \/ \E t \in Tasks : Call_safe_cache_get(t, K_user1a, TTL_DEFAULT)
    \/ \E t \in Tasks : safe_cache_get_get_cache(t)
    \/ \E t \in Tasks : safe_cache_get_get(t)
    \/ \E t \in Tasks, v \in RaceOutcomes : safe_cache_get_fallback(t, v)
    \/ \E t \in Tasks : safe_cache_get_set(t)
    \/ \E t \in Tasks, v \in RaceOutcomes : safe_cache_get_except(t, v)
    \/ \E t \in Tasks : Call_get_auto_refresh_data(t, K_user1a, TTL_DEFAULT)
    \/ \E t \in Tasks : get_auto_refresh_data_get_cache(t)
    \/ \E t \in Tasks : get_auto_refresh_data_get(t)
    \/ \E t \in Tasks, v \in RaceOutcomes : get_auto_refresh_data_fetch(t, v)
    \/ \E t \in Tasks : get_auto_refresh_data_set(t)
    \/ \E t \in Tasks : Return(t)
    \/ Outage
    \/ Recover
    \/ Advance(TTL_DEFAULT)

SpecRace == Init /\ [][NextRace]_vars

\* Task t completes its set in this step.
SetStep(t) == task[t].pc = "set" /\ task'[t].sets = task[t].sets + 1

\* C8: a call that has missed invokes the producer before its set, and
\* when a call performs its set after another call for the same key has
\* performed its own, both have invoked the producer, both have finished,
\* and the entry holds the value of the set executed last.
C8_LastWriteWins ==
    [][\A t \in Tasks : task[t].fn \in RaceFns =>
        /\ (GetStep(t) /\ ClientGet(store, task[t].key) = None) =>
                task'[t].pc = "produce"
        /\ task[t].pc = "set" => task[t].calls = 1
        /\ \A u \in Tasks \ {t} :
              (/\ SetStep(t)
               /\ task[u].fn \in RaceFns /\ task[u].key = task[t].key
               /\ task[u].pc = "done" /\ task[u].sets = 1) =>
                  /\ task[u].calls = 1
                  /\ task'[t].pc = "done" /\ task'[t].result = task[t].data
                  /\ store'[Prefixed(task[t].key)] =
                        Entry(task[t].data, TRUE, task[t].ttl)]_vars

\* Two calls for one key have both missed, both computed (different
\* values) and both set; the entry holds one of the two values while the
\* other call returned the other.
C8_Witness ==
    \E t \in Tasks, u \in Tasks :
        /\ task[t].fn = "safe_cache_get" /\ task[u].fn = "get_auto_refresh_data"
        /\ task[t].pc = "done" /\ task[u].pc = "done"
        /\ task[t].sets = 1 /\ task[u].sets = 1
        /\ task[t].calls = 1 /\ task[u].calls = 1
        /\ task[t].result = "A" /\ task[u].result = "B"
        /\ ClientGet(store, K_user1a) = "A"

(***************************************************************************)
(* SpecInval: invalidating mutations, with memoized calls that fill the    *)
(* keys they invalidate.                                                   *)
(***************************************************************************)
InvalOutcomes == {"A", Raise}
FillOutcomes == {"A"}
InvalKeys == {K_user1a, K_user2a}
Patterns == {P_user1, P_none}

NextInval ==
    \/ \E t \in Tasks : Call_update_user_profile(t)
    \/ \E t \in Tasks, pat \in Patterns : Call_invalidating(t, pat)
    \/ \E t \in Tasks, v \in InvalOutcomes : update_user_profile(t, v)
    \/ \E t \in Tasks : cache_invalidate_delete_pattern(t)
    \/ \E t \in Tasks, k \in InvalKeys : Call_safe_cache_get(t, k, TTL_DEFAULT)
    \/ \E t \in Tasks : safe_cache_get_get_cache(t)
    \/ \E t \in Tasks : safe_cache_get_get(t)
    \/ \E t \in Tasks, v \in FillOutcomes : safe_cache_get_fallback(t, v)
    \/ \E t \in Tasks : safe_cache_get_set(t)
    \/ \E t \in Tasks, v \in FillOutcomes : safe_cache_get_except(t, v)
    \/ \E t \in Tasks : Call_get_admin_users(t)
    \/ \E t \in Tasks : cache_result_get(t)
    \/ \E t \in Tasks, v \in FillOutcomes : get_admin_users(t, v)
    \/ \E t \in Tasks : cache_result_set(t)
    \/ \E t \in Tasks : Return(t)
    \/ Outage
    \/ Recover

SpecInval == Init /\ [][NextInval]_vars

\* C4: delete_pattern is called only after the wrapped function has
\* returned without raising, and the call returns the wrapped function's
\* result; when the wrapped function raises, delete_pattern is not called,
\* the store is left as it was and the failure propagates.
C4_InvalidateAfterSuccess ==
    [][\A t \in Tasks : task[t].fn = "update_user_profile" =>
        /\ task'[t].dels > task[t].dels =>
                /\ task[t].calls = 1 /\ ~task[t].prodErr
                /\ task'[t].outcome = "ok" /\ task'[t].result = task[t].data
        /\ (~task[t].prodErr /\ task'[t].prodErr) =>
                /\ store' = store /\ task'[t].dels = 0
                /\ task'[t].pc = "done" /\ task'[t].outcome = "raise"
                /\ task'[t].result = ComputationFailure
        /\ (task[t].pc = "done" /\ task[t].prodErr) => task[t].dels = 0
        /\ (task[t].pc = "done" /\ task[t].outcome = "ok") =>
                task[t].dels = 1 /\ task[t].result = task[t].data]_vars

\* update_user_profile has returned its result after removing both user
\* entries.
C4_Witness ==
    \E t \in Tasks :
        /\ task[t].fn = "update_user_profile" /\ task[t].pc = "done"
        /\ task[t].pat = P_user /\ task[t].dels = 1 /\ task[t].removed = 2
        /\ task[t].outcome = "ok" /\ task[t].result = "A"

\* The keys a pattern is to remove, written out.
Scope(pat) ==
    IF pat = P_user THEN {Prefixed(K_user1), Prefixed(K_user1a), Prefixed(K_user2a)}
    ELSE IF pat = P_user1 THEN {Prefixed(K_user1a)}
    ELSE {}

\* C5: delete_pattern(p) on a reachable store removes every key that
\* matches p under the global prefix and leaves every other key and its
\* value unchanged; with a pattern that matches no key it removes nothing
\* and the call succeeds.
C5_InvalidationScope ==
    [][\A t \in Tasks :
        (/\ task[t].fn = "update_user_profile"
         /\ task'[t].dels > task[t].dels /\ up) =>
            /\ \A sk \in StoreKeys :
                  store'[sk] = IF sk \in Scope(task[t].pat) THEN NoEntry ELSE store[sk]
            /\ task'[t].removed =
                  Cardinality({sk \in Scope(task[t].pat) : store[sk].present})
            /\ task'[t].outcome = "ok"
            /\ task[t].pat = P_none => store' = store]_vars

\* A mutation with pattern user:1:* has removed user:1:a and left
\* user:2:a, admins and the other application's key present.
C5_Witness ==
    \E t \in Tasks :
        /\ task[t].fn = "update_user_profile" /\ task[t].pc = "done"
        /\ task[t].pat = P_user1 /\ task[t].removed = 1
        /\ ~store[Prefixed(K_user1a)].present
        /\ store[Prefixed(K_user2a)].present
        /\ store[Prefixed(K_admins)].present
        /\ store[K_foreign].present

(***************************************************************************)
(* SpecSession: cache_user_session_data, called concurrently, under        *)
(* outages and expiry.                                                     *)
(***************************************************************************)
NextSession ==
    \/ \E t \in Tasks, sd \in Sessions : Call_cache_user_session_data(t, sd)
    \/ \E t \in Tasks : cache_user_session_data_get_cache(t)
    \/ \E t \in Tasks : cache_user_session_data_set_session(t)
    \/ \E t \in Tasks : cache_user_session_data_set_user(t)
    \/ \E t \in Tasks : Return(t)
    \/ Outage
    \/ Recover
    \/ Advance(TTL_SESSION)

SpecSession == Init /\ [][NextSession]_vars

\* Task t completes a set in this step.
Wrote(t) == task'[t].sets = task[t].sets + 1

Solo == {t \in Tasks : \A u \in Tasks : t <= u}
Durations == {TTL_HIGH, TTL_NORMAL, TTL_LOW}
ExpiryPriorities == {Pr_high, Pr_normal, Pr_low}
ExpiryOutcomes == {"A", Raise}

NextExpiry ==
    \/ \E t \in Solo, p \in ExpiryPriorities : Call_get_priority_data(t, p)
    \/ \E t \in Solo : get_priority_data_get_cache(t)
    \/ \E t \in Solo : get_priority_data_get(t)
    \/ \E t \in Solo, v \in ExpiryOutcomes : get_priority_data_fetch(t, v)
    \/ \E t \in Solo : get_priority_data_set(t)
    \/ \E t \in Solo : Return(t)
    \/ set_without_ttl(K_admins, "A")
    \/ \E d \in Durations : Advance(d)

SpecExpiry == Init /\ [][NextExpiry]_vars

\* C10: get returns absent for an entry whose TTL has elapsed since its
\* last set, and the miss is a normal result (get_priority_data goes on to
\* fetch); the entry stays absent until it is set again; time takes an
\* entry with a TTL to its expiry and leaves an entry without a TTL as it
\* is.
C10_Expiry ==
    [][/\ \A sk \in StoreKeys :
            (store[sk].expires /\ store[sk].age >= store[sk].ttl) =>
                ~store[sk].present
       /\ \A d \in Durations : Advance(d) =>
            \A sk \in StoreKeys :
                IF store[sk].present /\ store[sk].expires
                THEN /\ store'[sk].age = store[sk].age + d
                        \/ store'[sk].age = store[sk].ttl
                     /\ store'[sk].present <=> store[sk].age + d < store[sk].ttl
                     /\ store'[sk].val = store[sk].val
                ELSE store'[sk] = store[sk]
       /\ \A sk \in StoreKeys :
            (~store[sk].present /\ store'[sk].present) => store'[sk].age = 0
       /\ \A t \in Tasks :
            (task[t].fn = "get_priority_data" /\ GetStep(t)) =>
                LET e == store[Prefixed(task[t].key)] IN
                /\ (e.expires /\ e.age >= e.ttl) =>
                        ClientGet(store, task[t].key) = None
                /\ ~e.present =>
                        task'[t].pc = "produce" /\ task'[t].outcome = "none"]_vars

\* The high-priority entry has expired and a call has missed on it, while
\* the normal-priority entry written before it is still live and the
\* entry without a TTL is still there.
C10_Witness ==
    \E t \in Tasks :
        /\ task[t].fn = "get_priority_data" /\ task[t].pc = "produce"
        /\ task[t].key = PriorityKey(Pr_high)
        /\ ~store[Prefixed(PriorityKey(Pr_high))].present
        /\ store[Prefixed(PriorityKey(Pr_high))].expires
        /\ store[Prefixed(PriorityKey(Pr_high))].age >= TTL_HIGH
        /\ store[Prefixed(PriorityKey(Pr_normal))].present
        /\ store[Prefixed(PriorityKey(Pr_normal))].age >= TTL_HIGH
        /\ store[Prefixed(K_admins)].present
        /\ ~store[Prefixed(K_admins)].expires

(***************************************************************************)
(* SpecConfig: RedisConfig.get_redis_url over the settings the environment *)
(* can supply.                                                             *)
(***************************************************************************)
Urls == {<<>>, <<"r","e","d","i","s",":","/","/","x">>, <<"u">>}
Passwords == {<<>>, <<"p","w">>, <<"@">>}
Hosts == {S_localhost, <<"h">>}
Ports == {6379, 80}
Dbs == {0, 15, -1}

InitConfig ==
    /\ store = EmptyStore
    /\ up = TRUE
    /\ task = [t \in Tasks |-> Idle]
    /\ db = InitialDb
    /\ config \in [REDIS_HOST : Hosts, REDIS_PORT : Ports, REDIS_DB : Dbs,
                   REDIS_PASSWORD : Passwords, REDIS_URL : Urls]

NextConfig ==
    \/ \E t \in Tasks : Call_get_redis_url(t)
    \/ \E t \in Tasks : Return(t)

SpecConfig == InitConfig /\ [][NextConfig]_vars

\* The decimal numerals of the ports and database indexes, written out.
Numeral(n) ==
    CASE n = 6379 -> <<"6","3","7","9">>
      [] n = 80 -> <<"8","0">>
      [] n = 0 -> <<"0">>
      [] n = 15 -> <<"1","5">>
      [] n = -1 -> <<"-","1">>

\* C11 (connection URL selection): get_redis_url returns REDIS_URL
\* unchanged whenever it is non-empty, whatever the other settings are;
\* otherwise redis://:<password>@<host>:<port>/<db> when the password is
\* non-empty, and redis://<host>:<port>/<db> when it is empty.
C11_UrlSelection ==
    \A t \in Tasks :
        (task[t].fn = "get_redis_url" /\ task[t].pc = "done") =>
            /\ task[t].outcome = "ok"
            /\ config.REDIS_URL # <<>> => task[t].result = config.REDIS_URL
            /\ (config.REDIS_URL = <<>> /\ config.REDIS_PASSWORD # <<>>) =>
                   task[t].result =
                       <<"r","e","d","i","s",":","/","/",":">>
                           \o config.REDIS_PASSWORD \o <<"@">> \o config.REDIS_HOST
                           \o <<":">> \o Numeral(config.REDIS_PORT)
                           \o <<"/">> \o Numeral(config.REDIS_DB)
            /\ (config.REDIS_URL = <<>> /\ config.REDIS_PASSWORD = <<>>) =>
                   task[t].result =
                       <<"r","e","d","i","s",":","/","/">> \o config.REDIS_HOST
                           \o <<":">> \o Numeral(config.REDIS_PORT)
                           \o <<"/">> \o Numeral(config.REDIS_DB)

\* A call has returned REDIS_URL although a password and a host are set.
C11_Witness ==
    \E t \in Tasks :
        /\ task[t].fn = "get_redis_url" /\ task[t].pc = "done"
        /\ config.REDIS_URL # <<>> /\ config.REDIS_PASSWORD # <<>>
        /\ task[t].result = config.REDIS_URL

(***************************************************************************)
(* SpecLive: refreshers running as tasks of their own beside requests      *)
(* that complete, fail, or are cancelled while suspended at an await.      *)
(* The event loop resumes every task whose awaited operation has           *)
(* completed: each step of a refresher is weakly fair.                     *)
(***************************************************************************)
CancelledError == "CancelledError"

\* The caller of a request cancels it, or its timeout expires, while the
\* request is suspended: CancelledError is raised at the await.
\* get_auto_refresh_data has no handler for it.
Cancel(t) ==
    /\ task[t].fn = "get_auto_refresh_data"
    /\ task[t].pc \in {"get_cache", "get", "produce", "set"}
    /\ task' = [task EXCEPT ![t] = Raised(@, CancelledError)]
    /\ UNCHANGED <<store, up, db, config>>

LiveOutcomes == {"A", Raise}

NextLive ==
    \/ \E t \in Tasks : Call_get_auto_refresh_data(t, K_user1a, TTL_DEFAULT)
    \/ \E t \in Tasks : get_auto_refresh_data_get_cache(t)
    \/ \E t \in Tasks : get_auto_refresh_data_get(t)
    \/ \E t \in Tasks, v \in LiveOutcomes : get_auto_refresh_data_fetch(t, v)
    \/ \E t \in Tasks : get_auto_refresh_data_set(t)
    \/ \E t \in Tasks : Cancel(t)
    \/ \E t \in Tasks : Call_refresh_cache_background(t, K_user1a, TTL_DEFAULT)
    \/ \E t \in Tasks : refresh_cache_background_get_cache(t)
    \/ \E t \in Tasks, v \in LiveOutcomes : refresh_cache_background_fetch(t, v)
    \/ \E t \in Tasks : refresh_cache_background_set(t)
    \/ \E t \in Tasks : Return(t)
    \/ Outage
    \/ Recover

FairRefresher ==
    \A t \in Tasks :
        /\ WF_vars(refresh_cache_background_get_cache(t))
        /\ WF_vars(\E v \in LiveOutcomes : refresh_cache_background_fetch(t, v))
        /\ WF_vars(refresh_cache_background_set(t))

SpecLive == Init /\ [][NextLive]_vars /\ FairRefresher

Refreshing(t) ==
    task[t].fn = "refresh_cache_background" /\ task[t].pc # "done"

Refreshed(t) ==
    /\ task[t].fn = "refresh_cache_background" /\ task[t].pc = "done"
    /\ task[t].outcome = "ok"
    /\ task[t].sets = 1 \/ task[t].storeErr \/ task[t].prodErr

C13_ReadBeforeWrite ==
    [][\A t \in Tasks : task[t].fn \in RaceFns =>
        /\ task'[t].sets > task[t].sets => task[t].pc = "set"
        /\ (task'[t].pc = "set" /\ task[t].pc # "set") => task[t].pc = "produce"
        /\ (task'[t].pc = "produce" /\ task[t].pc # "produce") =>
               /\ task[t].pc = "get" /\ up
               /\ ClientGet(store, task[t].key) = None
        /\ (GetStep(t) /\ ClientGet(store, task[t].key) # None) =>
               task'[t].pc = "done" /\ task'[t].sets = 0]_vars

(***************************************************************************)
(* SpecStale: update_user_profile beside memoized reads and refreshers of  *)
(* the user's keys, whose producers read the profile from the database.    *)
(***************************************************************************)
NewProfiles == {"B", Raise}
Read == {db.profile, Raise}

NextStale ==
    \/ \E t \in Tasks : Call_update_user_profile(t)
    \/ \E t \in Tasks, v \in NewProfiles : update_user_profile(t, v)
    \/ \E t \in Tasks : cache_invalidate_delete_pattern(t)
    \/ \E t \in Tasks : Call_get_user_profile(t)
    \/ \E t \in Tasks : cache_result_get(t)
    \/ \E t \in Tasks, v \in Read : get_user_profile(t, v)
    \/ \E t \in Tasks : cache_result_set(t)
    \/ \E t \in Tasks : Call_safe_cache_get(t, K_user1a, TTL_DEFAULT)
    \/ \E t \in Tasks : safe_cache_get_get_cache(t)
    \/ \E t \in Tasks : safe_cache_get_get(t)
    \/ \E t \in Tasks, v \in Read : safe_cache_get_fallback(t, v)
    \/ \E t \in Tasks : safe_cache_get_set(t)
    \/ \E t \in Tasks, v \in Read : safe_cache_get_except(t, v)
    \/ \E t \in Tasks : Call_refresh_cache_background(t, K_user1a, TTL_DEFAULT)
    \/ \E t \in Tasks : refresh_cache_background_get_cache(t)
    \/ \E t \in Tasks, v \in Read : refresh_cache_background_fetch(t, v)
    \/ \E t \in Tasks : refresh_cache_background_set(t)
    \/ \E t \in Tasks : Return(t)

SpecStale == Init /\ [][NextStale]_vars

\* C14 (invalidation leaves no stale user data): while a call of
\* update_user_profile has returned successfully, every present entry
\* whose key matches user:* holds the profile as the database has it.
C14_NoStaleUserData ==
    (\E t \in Tasks :
        /\ task[t].fn = "update_user_profile" /\ task[t].pc = "done"
        /\ task[t].outcome = "ok") =>
    \A k \in {K_user1, K_user1a, K_user2a} :
        store[Prefixed(k)].present => ClientGet(store, k) = db.profile

(***************************************************************************)
(* SpecHand: the hand-written cache-aside functions, whose fetches can     *)
(* return empty values.                                                    *)
(***************************************************************************)
HandOutcomes == {Empty, "A", Raise}
HandFns ==
    {"get_grouped_user_data", "get_auto_refresh_data", "get_priority_data",
     "get_user_data_with_conditional_cache"}

NextHand ==
    \/ \E t \in Tasks : Call_get_grouped_user_data(t)
    \/ \E t \in Tasks : get_grouped_user_data_get_cache(t)
    \/ \E t \in Tasks : get_grouped_user_data_get(t)
    \/ \E t \in Tasks, users_data \in UsersData, raises \in BOOLEAN :
           get_grouped_user_data_fetch(t, users_data, raises)
    \/ \E t \in Tasks : get_grouped_user_data_set(t)
    \/ \E t \in Tasks : Call_get_priority_data(t, Pr_normal)
    \/ \E t \in Tasks : get_priority_data_get_cache(t)
    \/ \E t \in Tasks : get_priority_data_get(t)
    \/ \E t \in Tasks, v \in HandOutcomes : get_priority_data_fetch(t, v)
    \/ \E t \in Tasks : get_priority_data_set(t)
    \/ \E t \in Tasks : Call_get_user_data_with_conditional_cache(t)
    \/ \E t \in Tasks : get_user_data_with_conditional_cache_get_cache(t)
    \/ \E t \in Tasks : get_user_data_with_conditional_cache_get(t)
    \/ \E t \in Tasks, v \in UserData \cup {Raise} :
           get_user_data_with_conditional_cache_fetch(t, v)
    \/ \E t \in Tasks : get_user_data_with_conditional_cache_set(t)
    \/ \E t \in Tasks : Call_get_auto_refresh_data(t, K_user1a, TTL_DEFAULT)
    \/ \E t \in Tasks : get_auto_refresh_data_get_cache(t)
    \/ \E t \in Tasks : get_auto_refresh_data_get(t)
    \/ \E t \in Tasks, v \in HandOutcomes : get_auto_refresh_data_fetch(t, v)
    \/ \E t \in Tasks : get_auto_refresh_data_set(t)
    \/ \E t \in Tasks : Return(t)

SpecHand == Init /\ [][NextHand]_vars

\* C15 (hit for every stored value): a call of a hand-written cache-aside
\* function whose get finds the entry of its key present returns the
\* stored value, whatever the value is, without invoking the fetch and
\* without a set.
C15_HitForEveryStoredValue ==
    [][\A t \in Tasks :
        (/\ task[t].fn \in HandFns /\ GetStep(t)
         /\ store[Prefixed(task[t].key)].present) => HitReturns(t)]_vars

(***************************************************************************)
(* Invocations of the fallback (checked under SpecMemo).                   *)
(***************************************************************************)
\* C16 (at-most-once computation per call): a call of safe_cache_get has
\* invoked fallback_func at most once, whatever its outcome.
C16_AtMostOnce ==
    \A t \in Tasks : task[t].fn = "safe_cache_get" => task[t].calls <= 1

(***************************************************************************)
(* SpecCounter: every task runs one call of increment_user_counter on the  *)
(* same counter; the store can be unreachable and the cache entry can      *)
(* expire.                                                                 *)
(***************************************************************************)
NextCounter ==
    \/ \E t \in Tasks : Call_increment_user_counter(t)
    \/ \E t \in Tasks : increment_user_counter_get_cache(t)
    \/ \E t \in Tasks : increment_user_counter_get(t)
    \/ \E t \in Tasks : increment_user_counter_get_counter_from_db(t)
    \/ \E t \in Tasks : increment_user_counter_set(t)
    \/ \E t \in Tasks : increment_user_counter_update_counter_in_db(t)
    \/ Outage
    \/ Recover
    \/ Advance(TTL_COUNTER)

SpecCounter == Init /\ [][NextCounter]_vars

Completed == {t \in Tasks : task[t].pc = "done"}
Quiescent == \A t \in Tasks : task[t].pc \in {"idle", "done"}

\* C17 (no lost increments): when the k calls started so far have all
\* completed and none has failed, the database holds the initial value
\* plus k and the calls have returned k distinct values.
C17_NoLostIncrements ==
    (Quiescent /\ \A t \in Completed : task[t].outcome = "ok") =>
        /\ db.counter = InitialDb.counter + Cardinality(Completed)
        /\ \A t \in Completed, u \in Completed :
               t # u => task[t].result # task[u].result

\* C18 (counter cache/database agreement): when no call is in progress and
\* the cache entry of the counter is live, the cached value is the
\* database's.
C18_CounterAgreement ==
    (Quiescent /\ store[Prefixed(K_counter)].present) =>
        ClientGet(store, K_counter) = Num(db.counter)

(***************************************************************************)
(* SpecConditional: get_user_data_with_conditional_cache under outages     *)
(* and expiry.                                                             *)
(***************************************************************************)
NextConditional ==
    \/ \E t \in Tasks : Call_get_user_data_with_conditional_cache(t)
    \/ \E t \in Tasks : get_user_data_with_conditional_cache_get_cache(t)
    \/ \E t \in Tasks : get_user_data_with_conditional_cache_get(t)
    \/ \E t \in Tasks, v \in UserData \cup {Raise} :
           get_user_data_with_conditional_cache_fetch(t, v)
    \/ \E t \in Tasks : get_user_data_with_conditional_cache_set(t)
    \/ \E t \in Tasks : Return(t)
    \/ Outage
    \/ Recover
    \/ Advance(TTL_CONDITIONAL)

SpecConditional == Init /\ [][NextConditional]_vars

\* C19 (conditional caching): a call of
\* get_user_data_with_conditional_cache changes the store only by its set
\* of user_data:1, which it performs only with fetched data whose
\* is_active is truthy; after a miss, the call returns inactive data from
\* the fetch itself, with the store as it was and no set, and returns
\* active data from its set on a reachable store.
C19_ConditionalCaching ==
    [][\A t \in Tasks : task[t].fn = "get_user_data_with_conditional_cache" =>
        /\ (task'[t] # task[t] /\ store' # store) =>
               /\ task[t].pc = "set" /\ task[t].data = "Active"
               /\ \A sk \in StoreKeys :
                      store'[sk] = IF sk = Prefixed(K_data1)
                                   THEN Entry("Active", TRUE, TTL_CONDITIONAL)
                                   ELSE store[sk]
        /\ task'[t].sets > task[t].sets => task[t].data = "Active"
        /\ (task[t].pc = "produce" /\ task'[t].calls = 1 /\ ~task'[t].prodErr) =>
               IF task'[t].data = "Active"
               THEN task'[t].pc = "set" /\ task'[t].outcome = "none"
               ELSE /\ task'[t].pc = "done" /\ task'[t].outcome = "ok"
                    /\ task'[t].result = task'[t].data
                    /\ task'[t].sets = 0 /\ store' = store
        /\ (task[t].pc = "set" /\ task'[t].pc # "set" /\ up) =>
               /\ task'[t].pc = "done" /\ task'[t].outcome = "ok"
               /\ task'[t].result = task[t].data /\ task'[t].sets = 1]_vars

\* A call has missed, fetched the data of an inactive user and returned
\* it, and no entry was written.
C19_Witness ==
    \E t \in Tasks :
        /\ task[t].fn = "get_user_data_with_conditional_cache"
        /\ task[t].pc = "done" /\ task[t].outcome = "ok"
        /\ task[t].calls = 1 /\ task[t].result = "Inactive"
        /\ task[t].sets = 0
        /\ ~store[Prefixed(K_data1)].present

====
